---- MODULE Spec2Model ----
(***************************************************************************)
(* Model of backend/api/views.py of foodgram: the request handlers of      *)
(* UserViewSet (handle_avatar, manage_follow) and of RecipeViewSet         *)
(* (generate_share_link, export_shopping_cart and its three renderers).    *)
(* Every handler is one atomic action over the database rows it touches;   *)
(* request and response hold the last request served and its answer, and   *)
(* pre holds the rows as they were when that request arrived.              *)
(*                                                                         *)
(* A Python str is a sequence of pieces (each piece a run of characters),  *)
(* so that split, lower, join and the encodability of a text are computed  *)
(* and not assumed.  Source literals that are not ASCII are written in     *)
(* transliteration and listed in NonLatin1.                                *)
(***************************************************************************)
EXTENDS Integers, Sequences, FiniteSets, TLC

VARIABLES avatar, avatarLog, follows, cart, lines, ingredients_list,
          request, response, pre

vars == <<avatar, avatarLog, follows, cart, lines, ingredients_list,
          request, response, pre>>

(***************************************************************************)
(* Rows of the database.                                                   *)
(***************************************************************************)
\* Primary keys of the rows of User; UserPks adds one key that has no row.
Users == {1, 2}
UserPks == Users \cup {3}

\* No request served yet.
NoRequest == [handler |-> "none"]
NoResponse == [status |-> 0]

(***************************************************************************)
(* str helpers.                                                            *)
(***************************************************************************)
\* s.split(sep): the runs of pieces between the occurrences of sep.
RECURSIVE SplitFrom(_, _, _, _)
SplitFrom(s, sep, i, cur) ==
    IF i > Len(s) THEN <<cur>>
    ELSE IF s[i] = sep THEN <<cur>> \o SplitFrom(s, sep, i + 1, <<>>)
    ELSE SplitFrom(s, sep, i + 1, Append(cur, s[i]))

Split(s, sep) == SplitFrom(s, sep, 1, <<>>)

\* seq[-1]
Last(seq) == seq[Len(seq)]

(***************************************************************************)
(* UserViewSet.handle_avatar                                               *)
(***************************************************************************)
\* user.avatar of a user without an avatar: a FieldFile with no name (falsy).
NoAvatar == <<>>

B64Sep == ";base64,"

\* uuid.uuid4() draws a fresh name.
Uuids == {"uuid-a", "uuid-b"}

\* request.data.get('avatar'): absent (None), a str, or a JSON value that is
\* no str (a number, a list), which is truthy or falsy.
StrData(s) == [kind |-> "str", s |-> s, truthy |-> s # <<>>]
AvatarData ==
    { [kind |-> "none", s |-> <<>>, truthy |-> FALSE],
      [kind |-> "other", s |-> <<>>, truthy |-> TRUE],
      [kind |-> "other", s |-> <<>>, truthy |-> FALSE],
      StrData(<<>>),
      StrData(<<"data:image", "/", "png", B64Sep, "Q", "U", "J", "D">>),
      StrData(<<"data:image", "/", "jpeg", B64Sep, "Q", "U", "J", "D">>),
      StrData(<<"Q", "U", "J", "D">>),
      StrData(<<"data:image", "/", "png", B64Sep, "Q", B64Sep, "U">>),
      StrData(<<"data:image", "/", "png", B64Sep, "Q">>) }

\* base64.b64decode(imgstr) raises binascii.Error unless the characters come
\* in groups of four.
B64Decodes(imgstr) == Len(imgstr) % 4 = 0

\* Lines 77-79: the name of the new file; ok is FALSE when a line of the
\* try block raises (no split method, not exactly two parts, bad base64).
Raises == [ok |-> FALSE, name |-> <<>>]
NewAvatarName(data, uuid) ==
    IF data.kind # "str" THEN Raises
    ELSE LET parts == Split(data.s, B64Sep) IN
         IF Len(parts) # 2 THEN Raises
         ELSE IF ~B64Decodes(parts[2]) THEN Raises
         ELSE [ok |-> TRUE,
               name |-> <<uuid, ".">> \o Last(Split(parts[1], "/"))]

\* The PUT branch, lines 61-90: the answer and the value of user.avatar.
\* The old avatar is deleted (line 74, saved at once) before the payload is
\* split and decoded.
PutOutcome(old, data, uuid) ==
    IF ~data.truthy THEN [status |-> 400, avatar |-> old]
    ELSE LET cleared == NoAvatar
             new == NewAvatarName(data, uuid) IN
         IF ~new.ok THEN [status |-> 400, avatar |-> cleared]
         ELSE [status |-> 200, avatar |-> new.name]

\* A DELETE that answers 204 and forgets to clear the field.
DeleteOutcomeKeeps(old) ==
    IF old # NoAvatar THEN [status |-> 204, avatar |-> old]
    ELSE [status |-> 404, avatar |-> old]

\* The DELETE branch, lines 93-104.
DeleteOutcome(old) ==
    IF old # NoAvatar THEN [status |-> 204, avatar |-> NoAvatar]
    ELSE [status |-> 404, avatar |-> old]

\* The last two avatar requests of a user, newest last.
Logged(log, entry) ==
    IF Len(log) < 2 THEN Append(log, entry) ELSE <<log[2], entry>>

handle_avatar(user, method, data, uuid) ==
    LET out == IF method = "PUT" THEN PutOutcome(avatar[user], data, uuid)
               ELSE DeleteOutcome(avatar[user]) IN
    /\ avatar' = [avatar EXCEPT ![user] = out.avatar]
    /\ avatarLog' = [avatarLog EXCEPT
           ![user] = Logged(@, [method |-> method, status |-> out.status])]
    /\ request' = [handler |-> "handle_avatar", user |-> user,
                   method |-> method, data |-> data]
    /\ response' = [status |-> out.status]
    /\ pre' = [avatar |-> avatar, follows |-> follows]
    /\ UNCHANGED <<follows, cart, lines, ingredients_list>>

(***************************************************************************)
(* UserViewSet.manage_follow                                               *)
(***************************************************************************)
\* Line 130: get_object_or_404(User, pk=id).
UserExists(id) == id \in Users

\* An unfollow that deletes every subscription of the user.
UnfollowOutcomeAll(fs, user, id) ==
    IF ~UserExists(id) THEN [status |-> 404, follows |-> fs]
    ELSE IF <<user, id>> \notin fs THEN [status |-> 400, follows |-> fs]
    ELSE [status |-> 204, follows |-> {f \in fs : f[1] # user}]

\* The DELETE branch, lines 130-143.
UnfollowOutcome(fs, user, id) ==
    IF ~UserExists(id) THEN [status |-> 404, follows |-> fs]
    ELSE IF <<user, id>> \notin fs THEN [status |-> 400, follows |-> fs]
    ELSE [status |-> 204, follows |-> fs \ {<<user, id>>}]

\* The POST branch, lines 115-128.  SubscriptionSerializer decides validity
\* (valid): is_valid raises a 400 or save() stores the row.
FollowOutcome(fs, user, id, valid) ==
    IF valid /\ UserExists(id)
    THEN [status |-> 201, follows |-> fs \cup {<<user, id>>}]
    ELSE [status |-> 400, follows |-> fs]

manage_follow(user, method, id, valid) ==
    LET out == IF method = "POST" THEN FollowOutcome(follows, user, id, valid)
               ELSE UnfollowOutcome(follows, user, id) IN
    /\ follows' = out.follows
    /\ request' = [handler |-> "manage_follow", user |-> user,
                   method |-> method, id |-> id]
    /\ response' = [status |-> out.status]
    /\ pre' = [avatar |-> avatar, follows |-> follows]
    /\ UNCHANGED <<avatar, avatarLog, cart, lines, ingredients_list>>

(***************************************************************************)
(* RecipeViewSet.generate_share_link                                       *)
(***************************************************************************)
\* The primary keys of the Recipe rows: the small ones and those around the
\* powers of 62; NoRecipePk has no row.
MaxRecipeId == 130
RecipeIds == (0..MaxRecipeId) \cup {3843, 3844, 3845, 238327, 238328, 238329}
NoRecipePk == MaxRecipeId + 1

\* The alphabet of Base62Field: digits, lowercase, uppercase.
Alphabet ==
    << "0", "1", "2", "3", "4", "5", "6", "7", "8", "9",
       "a", "b", "c", "d", "e", "f", "g", "h", "i", "j", "k", "l", "m",
       "n", "o", "p", "q", "r", "s", "t", "u", "v", "w", "x", "y", "z",
       "A", "B", "C", "D", "E", "F", "G", "H", "I", "J", "K", "L", "M",
       "N", "O", "P", "Q", "R", "S", "T", "U", "V", "W", "X", "Y", "Z" >>

Base == Len(Alphabet)

\* Base62Field.to_base62: positional base 62, most significant symbol first;
\* zero is the first symbol of the alphabet.
RECURSIVE Digits62(_)
Digits62(n) ==
    IF n = 0 THEN <<>>
    ELSE Append(Digits62(n \div Base), Alphabet[(n % Base) + 1])

to_base62(n) == IF n = 0 THEN <<Alphabet[1]>> ELSE Digits62(n)

\* The inverse used by the /s/<token> route: -1 stands for InvalidToken.
SymbolValue(c) ==
    IF \E i \in 1..Base : Alphabet[i] = c
    THEN (CHOOSE i \in 1..Base : Alphabet[i] = c) - 1
    ELSE -1

RECURSIVE from_base62(_)
from_base62(token) ==
    IF token = <<>> THEN 0
    ELSE LET head == from_base62(SubSeq(token, 1, Len(token) - 1))
             d == SymbolValue(token[Len(token)]) IN
         IF head < 0 \/ d < 0 THEN -1 ELSE head * Base + d

\* A short code taken from the last symbol of the id only.
ShortCodeLastSymbol(recipe_id) == to_base62(recipe_id % Base)

\* Line 186: the code of the recipe's id.
ShortCode(recipe_id) == to_base62(recipe_id)

\* request.build_absolute_uri(path)
BaseUri == "http://testserver"
build_absolute_uri(path) == <<BaseUri>> \o path

generate_share_link(pk) ==
    /\ request' = [handler |-> "generate_share_link", pk |-> pk]
    /\ response' =
         IF pk \in RecipeIds
         THEN [status |-> 200,
               short_link |-> build_absolute_uri(<<"/s/">> \o ShortCode(pk))]
         ELSE [status |-> 404, short_link |-> <<>>]
    /\ pre' = [avatar |-> avatar, follows |-> follows]
    /\ UNCHANGED <<avatar, avatarLog, follows, cart, lines, ingredients_list>>

(***************************************************************************)
(* RecipeViewSet.export_shopping_cart                                      *)
(***************************************************************************)
\* Recipes that have ingredient lines, and the ingredient names and units in
\* the database's collation order.
Recipes == {1, 2}
NameOrder == <<"Salt", "Sugar">>
UnitOrder == <<"g", "kg">>
Names == {NameOrder[i] : i \in 1..Len(NameOrder)}
Units == {UnitOrder[i] : i \in 1..Len(UnitOrder)}

Amounts == {2, 3}

\* At most MaxLines RecipeIngredient rows.
MaxLines == 2

\* RecipeIngredient rows, each with the name and unit of its Ingredient.
LineUniverse ==
    [recipe : Recipes, name : Names, unit : Units, amount : Amounts]

RECURSIVE SetsUpTo(_)
SetsUpTo(k) ==
    IF k = 0 THEN {{}}
    ELSE LET S == SetsUpTo(k - 1) IN
         S \cup {s \cup {l} : s \in S, l \in LineUniverse}

\* ShoppingCart rows: (user, recipe).
CartUniverse == Users \X Recipes

Rank(order, x) == CHOOSE i \in 1..Len(order) : order[i] = x

\* A filter that forgets the user: the lines of any recipe in any cart.
JoinedAnyUser(user) ==
    {row \in lines \X cart : row[2][2] = row[1].recipe}

\* .filter(recipe__shopping_carts__user=request.user), line 200: the join of
\* the ingredient lines with the user's cart rows, one row per pair.
Joined(user) ==
    {row \in lines \X cart : row[2][2] = row[1].recipe /\ row[2][1] = user}

\* .values('ingredient__name', 'ingredient__measurement_unit'), lines 201-204:
\* the GROUP BY key.
GroupKey(row) == <<row[1].name, row[1].unit>>

RECURSIVE SumAmount(_)
SumAmount(rows) ==
    IF rows = {} THEN 0
    ELSE LET r == CHOOSE x \in rows : TRUE IN
         r[1].amount + SumAmount(rows \ {r})

\* .annotate(total_amount=Sum('amount')), line 205.
total_amount(rows, key) == SumAmount({r \in rows : GroupKey(r) = key})

\* An ORDER BY that the query lacks: any order of the groups.
OrderedByNothing(q) == TRUE

\* .order_by('ingredient__name'), line 206: the only sort key is the name.
OrderedByName(q) ==
    \A i, j \in 1..Len(q) :
        i < j => Rank(NameOrder, q[i][1]) <= Rank(NameOrder, q[j][1])

\* The result sets the query may return: the groups, once each, in an order
\* that satisfies ORDER BY; rows with equal sort keys come in any order.
QueryResults(user) ==
    LET rows == Joined(user)
        keys == {GroupKey(r) : r \in rows}
        n == Cardinality(keys) IN
    {q \in [1..n -> keys] :
        /\ \A i, j \in 1..n : i # j => q[i] # q[j]
        /\ OrderedByName(q)}

\* Lines 209-216.
IngredientsList(user, q) ==
    [i \in 1..Len(q) |->
        [name |-> q[i][1],
         amount |-> total_amount(Joined(user), q[i]),
         measurement_unit |-> q[i][2]]]

\* str(int): the decimal digits.
Digit == <<"0", "1", "2", "3", "4", "5", "6", "7", "8", "9">>
RECURSIVE IntToStr(_)
IntToStr(n) ==
    IF n < 10 THEN <<Digit[n + 1]>>
    ELSE Append(IntToStr(n \div 10), Digit[(n % 10) + 1])

\* sep.join(texts)
RECURSIVE Join(_, _)
Join(sep, texts) ==
    IF texts = <<>> THEN <<>>
    ELSE IF Len(texts) = 1 THEN texts[1]
    ELSE texts[1] \o <<sep>> \o Join(sep, Tail(texts))

\* str.lower(), on the letters the requests use.
UpperCase == <<"C", "D", "F", "P", "S", "T", "V", "X">>
LowerCase == <<"c", "d", "f", "p", "s", "t", "v", "x">>
LowerChar(c) ==
    IF \E i \in 1..Len(UpperCase) : UpperCase[i] = c
    THEN LowerCase[CHOOSE i \in 1..Len(UpperCase) : UpperCase[i] = c]
    ELSE c
Lower(s) == [i \in 1..Len(s) |-> LowerChar(s[i])]

\* Source literals outside latin-1, transliterated: the title of line 261,
\* the text ") <U+2014> " of lines 234 and 267, the header of line 244 and
\* the detail of line 228.
Title == "Spisok pokupok"
CloseDash == ") <U+2014> "
HeaderRow == <<"Ingredient", ",", "Kolichestvo", ",", "Edinitsa izmereniya">>
Unsupported == "Nepodderzhivaemyi format faila"
NonLatin1 ==
    {Title, CloseDash, "Ingredient", "Kolichestvo", "Edinitsa izmereniya",
     Unsupported}

\* f"{name} ({measurement_unit}) <U+2014> {amount}", lines 234 and 267.
EntryText(item) ==
    <<item.name, " (", item.measurement_unit, CloseDash>>
        \o IntToStr(item.amount)

\* Lines 232-239.
TextContent(ingredients) ==
    Join("\n", [i \in 1..Len(ingredients) |-> EntryText(ingredients[i])])

_generate_text_response(ingredients) ==
    [status |-> 200,
     content_type |-> "text/plain",
     disposition |-> "attachment; filename=\"shopping_list.txt\"",
     body |-> TextContent(ingredients)]

\* csv.writer.writerow: the fields joined by commas, a field holding a
\* comma, a quote or a line break quoted, and the row ended by CRLF.
NeedsQuote(field) ==
    \E i \in 1..Len(field) : field[i] \in {",", "\"", "\r", "\n"}
CsvField(field) ==
    IF NeedsQuote(field)
    THEN <<"\"">> \o
         [i \in 1..Len(field) |->
             IF field[i] = "\"" THEN "\"\"" ELSE field[i]] \o <<"\"">>
    ELSE field
writerow(fields) ==
    Join(",", [i \in 1..Len(fields) |-> CsvField(fields[i])]) \o <<"\r\n">>

RECURSIVE CsvRows(_)
CsvRows(ingredients) ==
    IF ingredients = <<>> THEN <<>>
    ELSE writerow(<< <<ingredients[1].name>>,
                     IntToStr(ingredients[1].amount),
                     <<ingredients[1].measurement_unit>> >>)
         \o CsvRows(Tail(ingredients))

\* Lines 241-255.
_generate_csv_response(ingredients) ==
    [status |-> 200,
     content_type |-> "text/csv",
     disposition |-> "attachment; filename=\"shopping_list.csv\"",
     body |-> HeaderRow \o <<"\r\n">> \o CsvRows(ingredients)]

\* pdf.cell(200, 10, txt=..., ln=True, align=...), lines 261 and 264-269.
Cell(txt, align) == [w |-> 200, h |-> 10, txt |-> txt, ln |-> TRUE,
                     align |-> align]

PdfCells(ingredients) ==
    <<Cell(<<Title>>, "C")>> \o
    [i \in 1..Len(ingredients) |-> Cell(EntryText(ingredients[i]), "")]

\* The font of line 260 is the core font Arial, which holds latin-1 text
\* only: FPDF raises on any other character, in cell() or in output().
Latin1(txt) == \A i \in 1..Len(txt) : txt[i] \notin NonLatin1

\* An exception that leaves the handler: Django answers 500.
ServerError ==
    [status |-> 500, content_type |-> "", disposition |-> "",
     body |-> <<>>]

\* Lines 257-276.
_generate_pdf_response(ingredients) ==
    LET cells == PdfCells(ingredients) IN
    IF \A i \in 1..Len(cells) : Latin1(cells[i].txt)
    THEN [status |-> 200,
          content_type |-> "application/pdf",
          disposition |-> "attachment; filename=\"shopping_list.pdf\"",
          body |-> cells]
    ELSE ServerError

\* request.query_params.get('format', 'txt'), line 218.
NoParam == [present |-> FALSE, value |-> <<>>]
Param(s) == [present |-> TRUE, value |-> s]
FormatParams ==
    { NoParam,
      Param(<<"t", "x", "t">>), Param(<<"c", "s", "v">>),
      Param(<<"p", "d", "f">>), Param(<<"x", "m", "l">>),
      Param(<<"C", "s", "v">>) }

\* A format taken as sent, without lower().
FileFormatAsSent(param) ==
    IF param.present THEN param.value ELSE <<"t", "x", "t">>

\* Line 218.
FileFormat(param) ==
    Lower(IF param.present THEN param.value ELSE <<"t", "x", "t">>)

\* Lines 220-230.
Dispatch(file_format, ingredients) ==
    IF file_format = <<"t", "x", "t">>
    THEN _generate_text_response(ingredients)
    ELSE IF file_format = <<"c", "s", "v">>
    THEN _generate_csv_response(ingredients)
    ELSE IF file_format = <<"p", "d", "f">>
    THEN _generate_pdf_response(ingredients)
    ELSE [status |-> 400, content_type |-> "", disposition |-> "",
          body |-> <<"detail", Unsupported>>]

export_shopping_cart(user, param) ==
    \E q \in QueryResults(user) :
        /\ ingredients_list' = IngredientsList(user, q)
        /\ request' = [handler |-> "export_shopping_cart", user |-> user,
                       format |-> param]
        /\ response' = Dispatch(FileFormat(param), ingredients_list')
        /\ pre' = [avatar |-> avatar, follows |-> follows]
        /\ UNCHANGED <<avatar, avatarLog, follows, cart, lines>>

(***************************************************************************)
(* Specifications                                                          *)
(***************************************************************************)
InitUsers ==
    /\ avatar = [u \in Users |-> NoAvatar]
    /\ avatarLog = [u \in Users |-> <<>>]
    /\ follows = {}
    /\ cart = {}
    /\ lines = {}
    /\ ingredients_list = <<>>
    /\ request = NoRequest
    /\ response = NoResponse
    /\ pre = [avatar |-> avatar, follows |-> follows]

NextAvatar ==
    \E user \in Users, method \in {"PUT", "DELETE"}, data \in AvatarData,
       uuid \in Uuids :
        handle_avatar(user, method, data, uuid)

SpecAvatar == InitUsers /\ [][NextAvatar]_vars

NextFollow ==
    \E user \in Users, method \in {"POST", "DELETE"}, id \in UserPks,
       valid \in BOOLEAN :
        manage_follow(user, method, id, valid)

SpecFollow == InitUsers /\ [][NextFollow]_vars

InitCart ==
    /\ avatar = [u \in Users |-> NoAvatar]
    /\ avatarLog = [u \in Users |-> <<>>]
    /\ follows = {}
    /\ cart \in SUBSET CartUniverse
    /\ lines \in SetsUpTo(MaxLines)
    /\ ingredients_list = <<>>
    /\ request = NoRequest
    /\ response = NoResponse
    /\ pre = [avatar |-> avatar, follows |-> follows]

NextCart ==
    \E user \in Users, param \in FormatParams :
        export_shopping_cart(user, param)

SpecCart == InitCart /\ [][NextCart]_vars

NextLink == \E pk \in RecipeIds \cup {NoRecipePk} : generate_share_link(pk)

SpecLink == InitUsers /\ [][NextLink]_vars

(***************************************************************************)
(* Properties                                                              *)
(***************************************************************************)
IsExport == request.handler = "export_shopping_cart"
IsAvatar == request.handler = "handle_avatar"
IsFollow == request.handler = "manage_follow"
IsLink == request.handler = "generate_share_link"

Txt == <<"t", "x", "t">>
Csv == <<"c", "s", "v">>
Pdf == <<"p", "d", "f">>
Identifiers == {Txt, Csv, Pdf}

\* The recipe-ingredient lines of the recipes in a user's cart.
CartLines(user) == {l \in lines : <<user, l.recipe>> \in cart}

RECURSIVE LineSum(_)
LineSum(ls) ==
    IF ls = {} THEN 0
    ELSE LET l == CHOOSE x \in ls : TRUE IN l.amount + LineSum(ls \ {l})

Pair(item) == <<item.name, item.measurement_unit>>

\* C1: the aggregated list holds exactly one line per (name, unit) pair
\* that occurs in a recipe of the requesting user's cart, and its amount is
\* the sum of the amounts of all lines with that pair over those recipes;
\* lines of recipes outside that user's cart add nothing.
C1_Aggregation ==
    IsExport =>
        LET out == ingredients_list
            mine == CartLines(request.user) IN
        /\ {Pair(out[i]) : i \in 1..Len(out)} = {<<l.name, l.unit>> : l \in mine}
        /\ \A i, j \in 1..Len(out) : i # j => Pair(out[i]) # Pair(out[j])
        /\ \A i \in 1..Len(out) :
              out[i].amount =
                LineSum({l \in mine : <<l.name, l.unit>> = Pair(out[i])})

\* C1 witness: amounts 2 and 3 of Salt (g) in two cart recipes give one line
\* of 5.
C1_Witness ==
    /\ IsExport
    /\ Cardinality(lines) = 2
    /\ \A l \in lines : <<request.user, l.recipe>> \in cart
    /\ {l.recipe : l \in lines} = Recipes
    /\ ingredients_list =
         <<[name |-> "Salt", amount |-> 5, measurement_unit |-> "g"]>>

\* C2 as stated: the list is sorted by name and, within one name, by unit.
C2_SortedByNameThenUnit ==
    IsExport =>
        \A i, j \in 1..Len(ingredients_list) :
            i < j =>
                LET a == ingredients_list[i]
                    b == ingredients_list[j] IN
                \/ Rank(NameOrder, a.name) < Rank(NameOrder, b.name)
                \/ /\ a.name = b.name
                   /\ Rank(UnitOrder, a.measurement_unit)
                        < Rank(UnitOrder, b.measurement_unit)

\* C2 amended: the list is sorted ascending by ingredient name (lines of one
\* name come in no fixed order).
C2_SortedByName ==
    IsExport =>
        \A i, j \in 1..Len(ingredients_list) :
            i < j =>
                Rank(NameOrder, ingredients_list[i].name)
                    <= Rank(NameOrder, ingredients_list[j].name)

\* C2 witness: a list of two lines with different names.
C2_Witness ==
    /\ IsExport
    /\ Len(ingredients_list) = 2
    /\ ingredients_list[1].name = "Salt"
    /\ ingredients_list[2].name = "Sugar"

IsBadRequest ==
    /\ response.status = 400
    /\ response.body = <<"detail", Unsupported>>
    /\ response.disposition = ""

\* C3 as stated: a format parameter other than txt, csv, pdf is answered 400
\* with a message and no file; one of the three is never answered 400.
C3_OtherThanIdentifiers400 ==
    (IsExport /\ request.format.present) =>
        IF request.format.value \in Identifiers
        THEN response.status # 400
        ELSE IsBadRequest

\* C3 amended: the parameter is compared in lowercase: a format that is none
\* of txt, csv, pdf once lowercased is answered 400 with a message and no
\* file, and one that is (or an absent one) is never answered 400.
C3_LowercasedFormat400 ==
    IsExport =>
        IF request.format.present
           /\ Lower(request.format.value) \notin Identifiers
        THEN IsBadRequest
        ELSE response.status # 400

\* C3 witness: format=xml was answered 400.
C3_Witness ==
    /\ IsExport
    /\ request.format = Param(<<"x", "m", "l">>)
    /\ response.status = 400

RequestedFormat ==
    IF request.format.present THEN Lower(request.format.value) ELSE Txt

\* C4: with an empty cart every one of the three formats is served: the
\* list is empty, txt has no content, csv has the header row only and pdf
\* has the title line only.
C4_EmptyCart ==
    (IsExport /\ RequestedFormat \in Identifiers
       /\ ~\E r \in Recipes : <<request.user, r>> \in cart) =>
        /\ ingredients_list = <<>>
        /\ response.status = 200
        /\ RequestedFormat = Txt => response.body = <<>>
        /\ RequestedFormat = Csv => response.body = HeaderRow \o <<"\r\n">>
        /\ RequestedFormat = Pdf => response.body = <<Cell(<<Title>>, "C")>>

MimeType(f) ==
    IF f = Txt THEN "text/plain"
    ELSE IF f = Csv THEN "text/csv" ELSE "application/pdf"
Extension(f) == IF f = Txt THEN "txt" ELSE IF f = Csv THEN "csv" ELSE "pdf"

\* C5: every accepted format is answered with the attachment
\* shopping_list.<format> of the matching MIME type, rendered by that
\* format's renderer; no format parameter is served as txt.
C5_Attachment ==
    (IsExport /\ RequestedFormat \in Identifiers) =>
        /\ response.status = 200
        /\ response.content_type = MimeType(RequestedFormat)
        /\ response.disposition =
             "attachment; filename=\"shopping_list."
                 \o Extension(RequestedFormat) \o "\""

\* The token of a short link: what follows <base-uri>/s/.
Token(link) == SubSeq(link, 3, Len(link))

\* C6: the token of the short link of recipe n decodes back to n.
C6_RoundTrip ==
    (IsLink /\ response.status = 200) =>
        /\ response.short_link[1] = BaseUri
        /\ response.short_link[2] = "/s/"
        /\ from_base62(Token(response.short_link)) = request.pk

\* C6 witness: a recipe whose token has three symbols.
C6_Witness ==
    /\ IsLink
    /\ request.pk = 3844
    /\ Token(response.short_link) = <<"1", "0", "0">>

\* C7: a PUT answered 400 leaves the stored avatars as they were.
C7_RejectedPutKeepsAvatar ==
    (IsAvatar /\ request.method = "PUT" /\ response.status = 400) =>
        avatar = pre.avatar

\* C8: a DELETE answers 204 exactly when the user has an avatar and then
\* leaves the user without one, and 404 exactly when there is none, with
\* nothing changed; of two consecutive DELETEs of a user at most one answers
\* 204, and a DELETE right after a PUT answered 200 answers 204.
C8_DeleteAvatar ==
    /\ (IsAvatar /\ request.method = "DELETE") =>
          LET u == request.user
              had == pre.avatar[u] # NoAvatar IN
          /\ response.status = (IF had THEN 204 ELSE 404)
          /\ avatar[u] = NoAvatar
          /\ \A v \in Users \ {u} : avatar[v] = pre.avatar[v]
          /\ ~had => avatar = pre.avatar
    /\ \A u \in Users :
          Len(avatarLog[u]) = 2 /\ avatarLog[u][2].method = "DELETE" =>
              /\ avatarLog[u][1] = [method |-> "DELETE", status |-> 204]
                    => avatarLog[u][2].status = 404
              /\ avatarLog[u][1] = [method |-> "PUT", status |-> 200]
                    => avatarLog[u][2].status = 204

\* C8 witness: a DELETE answered 204 right after a PUT answered 200, while
\* the other user keeps an avatar.
C8_Witness ==
    /\ IsAvatar
    /\ request.method = "DELETE"
    /\ response.status = 204
    /\ avatarLog[request.user] =
         <<[method |-> "PUT", status |-> 200],
           [method |-> "DELETE", status |-> 204]>>
    /\ \E v \in Users \ {request.user} : avatar[v] # NoAvatar

\* C9: a DELETE on subscribe removes exactly (u, id) and answers 204 when u
\* follows id, answers 400 and changes nothing when u does not follow id,
\* and answers 404 and changes nothing when user id does not exist.
C9_Unfollow ==
    (IsFollow /\ request.method = "DELETE") =>
        LET rel == <<request.user, request.id>> IN
        IF request.id \notin Users
        THEN response.status = 404 /\ follows = pre.follows
        ELSE IF rel \in pre.follows
        THEN response.status = 204 /\ follows = pre.follows \ {rel}
        ELSE response.status = 400 /\ follows = pre.follows

\* C9 witness: an unfollow answered 204 while the same user follows someone
\* else too.
C9_Witness ==
    /\ IsFollow
    /\ request.method = "DELETE"
    /\ response.status = 204
    /\ \E f \in follows : f[1] = request.user
    /\ Cardinality(pre.follows) = Cardinality(follows) + 1

\* The lines of a text body.
BodyLines(body) == IF body = <<>> THEN <<>> ELSE Split(body, "\n")

\* The rows of a csv body, the header row dropped.
CsvDataRows(body) ==
    LET rows == Split(body, "\r\n") IN SubSeq(rows, 2, Len(rows) - 1)

\* C10: each renderer emits one line (row, cell) per aggregated line, in the
\* order of the list; txt and pdf use the same text for an entry.
C10_OneLinePerEntry ==
    (IsExport /\ RequestedFormat \in Identifiers) =>
        LET out == ingredients_list
            n == Len(out) IN
        /\ response.status = 200
        /\ RequestedFormat = Txt =>
              /\ Len(BodyLines(response.body)) = n
              /\ \A i \in 1..n :
                    BodyLines(response.body)[i] =
                        <<out[i].name, " (", out[i].measurement_unit,
                          CloseDash>> \o IntToStr(out[i].amount)
        /\ RequestedFormat = Csv =>
              /\ Len(CsvDataRows(response.body)) = n
              /\ \A i \in 1..n :
                    CsvDataRows(response.body)[i] =
                        <<out[i].name, ",">> \o IntToStr(out[i].amount)
                            \o <<",", out[i].measurement_unit>>
        /\ RequestedFormat = Pdf =>
              /\ Len(response.body) = n + 1
              /\ \A i \in 1..n :
                    response.body[i + 1].txt =
                        <<out[i].name, " (", out[i].measurement_unit,
                          CloseDash>> \o IntToStr(out[i].amount)

====
